---- MODULE Spec2Model ----
(***************************************************************************)
(* stack-tail (src/src/main.rs): the follow/poll engine that fetches the   *)
(* state of a CloudFormation stack, decides whether to go on, and the      *)
(* display driver that repaints the terminal for each emitted tick.        *)
(*                                                                         *)
(* A ResourceState is modelled by the two fields that decide control flow  *)
(* (resource_type, status).  The timestamp, resource_id and reason fields  *)
(* only reach the formatted row; provider timestamps are taken to be valid *)
(* RFC3339 strings, so the expect("invalid timestamp") of the From         *)
(* conversions does not fire.                                              *)
(*                                                                         *)
(* A line on the terminal is identified by the tick and the position in    *)
(* that tick's batch of the record it was formatted from.                  *)
(***************************************************************************)
EXTENDS Naturals, Sequences, FiniteSets, TLC

\* ------------------------------------------------------------ constants
STACK_RESOURCE == "AWS::CloudFormation::Stack"
COMPLETE == "_COMPLETE"
FAILED == "_FAILED"

\* ---------------------------------------------------------------- bounds
\* fetches issued in one run
MaxTicks == 3
\* records in one provider response
MaxBatch == 2
\* failing terminal operations in one run
MaxIoFailures == 1

\* Definitions named after a definition of the program with a suffix
\* (complete_only_empty, prev_len_zero, ...) are that definition with a
\* defect seeded in it; they stand just before it and no action uses them.
\* They serve to test that a property is sensitive to the code it is about.

\* ------------------------------------------------- strings and options
ends_with(s, suffix) ==
    /\ Len(s) >= Len(suffix)
    /\ SubSeq(s, Len(s) - Len(suffix) + 1, Len(s)) = suffix

\* Option<T>: None is the empty sequence, Some(x) the one-element sequence
None == <<>>
Some(x) == <<x>>
unwrap_or_default(o, default) == IF o = None THEN default ELSE o[1]

RECURSIVE reverse(_)
reverse(s) == IF s = <<>> THEN <<>> ELSE Append(reverse(Tail(s)), Head(s))

\* ------------------------------------------------------ provider inputs
OtherType == "AWS::S3::Bucket"
Types == {STACK_RESOURCE, OtherType}
Statuses == {"CREATE_IN_PROGRESS", "UPDATE_COMPLETE", "UPDATE_FAILED"}

\* rusoto StackEvent: resource_type and resource_status are optional.
\* Events of the stack itself in every status, one of another resource, and
\* one with both fields absent.
StackEvents ==
    {[resource_type |-> Some(STACK_RESOURCE), resource_status |-> Some(s)] : s \in Statuses}
        \cup {[resource_type |-> Some(OtherType), resource_status |-> Some("UPDATE_COMPLETE")],
              [resource_type |-> None, resource_status |-> None]}

\* rusoto StackResource: resource_type and resource_status are required.
\* A resource in every status, and a nested stack.
StackResources ==
    {[resource_type |-> OtherType, resource_status |-> s] : s \in Statuses}
        \cup {[resource_type |-> STACK_RESOURCE, resource_status |-> "UPDATE_COMPLETE"]}

SeqsUpTo(S, n) == UNION {[1..k -> S] : k \in 0..n}

\* DescribeStackEventsOutput.stack_events: Option<Vec<StackEvent>>
EventsOutputs == {None} \cup {Some(l) : l \in SeqsUpTo(StackEvents, MaxBatch)}
\* DescribeStackResourcesOutput.stack_resources: Option<Vec<StackResource>>
ResourcesOutputs == {None} \cup {Some(l) : l \in SeqsUpTo(StackResources, MaxBatch)}

\* -------------------------------------------------------- ResourceState
from_event(e) ==
    [resource_type |-> unwrap_or_default(e.resource_type, ""),
     status |-> unwrap_or_default(e.resource_status, "")]

from_resource(e) ==
    [resource_type |-> e.resource_type, status |-> e.resource_status]

complete_or_failed_contains(r) ==
    \E i \in 1..Len(r.status) :
        \E j \in i..Len(r.status) :
            SubSeq(r.status, i, j) \in {COMPLETE, FAILED}

complete_or_failed_only_complete(r) == ends_with(r.status, COMPLETE)

complete_or_failed(r) == ends_with(r.status, COMPLETE) \/ ends_with(r.status, FAILED)

is_stack(r) == r.resource_type = STACK_RESOURCE

\* ---------------------------------------------------------------- State
StateInit(f) == [tag |-> "Init", follow |-> f, len |-> 0]
StateNext(f, n) == [tag |-> "Next", follow |-> f, len |-> n]

follow_init_only(s) == IF s.tag = "Init" THEN s.follow ELSE TRUE

follow(s) == s.follow

complete_only_empty(s) == s.tag = "Next" /\ ~s.follow /\ s.len = 0

complete_never(s) == FALSE

complete(s) == s.tag = "Next" /\ ~s.follow

prev_len_zero(s) == 0

prev_len(s) == IF s.tag = "Next" THEN s.len ELSE 0

\* ------------------------------------------- the two unfold map closures
resource_states(result) ==
    LET l == unwrap_or_default(result, <<>>) IN [i \in 1..Len(l) |-> from_resource(l[i])]

event_states_unreversed(result) ==
    LET l == unwrap_or_default(result, <<>>) IN [i \in 1..Len(l) |-> from_event(l[i])]

event_states(result) ==
    LET l == unwrap_or_default(result, <<>>) IN reverse([i \in 1..Len(l) |-> from_event(l[i])])

\* states.iter().all(ResourceState::complete_or_failed)
resources_done_any(states) == \E i \in 1..Len(states) : complete_or_failed(states[i])

resources_done_nonempty(states) ==
    states # <<>> /\ \A i \in 1..Len(states) : complete_or_failed(states[i])

resources_done(states) == \A i \in 1..Len(states) : complete_or_failed(states[i])

\* states.last().iter().any(|state| state.is_stack() && state.complete_or_failed())
events_done_any(states) ==
    \E i \in 1..Len(states) : is_stack(states[i]) /\ complete_or_failed(states[i])

events_done_empty_done(states) ==
    \/ states = <<>>
    \/ is_stack(states[Len(states)]) /\ complete_or_failed(states[Len(states)])

events_done(states) ==
    /\ states # <<>>
    /\ is_stack(states[Len(states)])
    /\ complete_or_failed(states[Len(states)])

resources_next_ignores_follow(s, states) ==
    StateNext(~resources_done(states), Len(states))

resources_next_adds_len(s, states) ==
    StateNext(follow(s) /\ ~resources_done(states), s.len + Len(states))

resources_next(s, states) ==
    StateNext(follow(s) /\ ~resources_done(states), Len(states))

events_next_ignores_follow(s, states) ==
    StateNext(~events_done(states), Len(states))

events_next(s, states) ==
    StateNext(follow(s) /\ ~events_done(states), Len(states))

\* the item the stream yields: (state.prev_len(), states.clone())
emit(s, states) == [prev_len |-> prev_len(s), states |-> states]

\* ------------------------------------------------------------- variables
VARIABLES
    opts,         \* Options: resources, follow
    state,        \* the State held by stream::unfold
    spc,          \* the stream: "empty", "slept", "processing", "ended", "errored"
    dpc,          \* the for_each driver: "poll", "clear", "write", "stopped"
    item,         \* the (prev_len, states) pair last yielded by the stream
    nticks,       \* items yielded so far
    prior,        \* number of records of the batch yielded on the tick before the last one
    screen,       \* lines on the terminal, oldest first
    calls,        \* describe_stack_* requests issued
    sleeps,       \* one-second sleeps taken
    outstanding,  \* requests issued and not yet answered
    clears,       \* clear_last_lines calls made
    rendered,     \* for_each closures run to their Ok(())
    io_failures,  \* terminal operations that returned Err
    clear_failures, \* clear_last_lines calls that returned Err
    errors,       \* requests that resolved Err
    exit_code,    \* None until main returns, then Some(the process exit status)
    response,     \* the stack_events / stack_resources field of the last Ok result
    probe         \* a status and what complete_or_failed answered for it (StatusSpec)

vars == <<opts, state, spc, dpc, item, nticks, prior, screen, calls, sleeps,
          outstanding, clears, rendered, io_failures, errors, exit_code, response, probe, clear_failures>>

\* no status has been put to complete_or_failed
NoProbe == [status |-> "", terminal |-> FALSE, asked |-> FALSE]

Init ==
    /\ opts \in [resources : BOOLEAN, follow : BOOLEAN]
    /\ state = StateInit(opts.follow)
    /\ spc = "empty"
    /\ dpc = "poll"
    /\ item = [prev_len |-> 0, states |-> <<>>]
    /\ nticks = 0
    /\ prior = 0
    /\ screen = <<>>
    /\ calls = 0
    /\ sleeps = 0
    /\ outstanding = 0
    /\ clears = 0
    /\ rendered = 0
    /\ io_failures = 0
    /\ clear_failures = 0
    /\ errors = 0
    /\ exit_code = None
    /\ response = None
    /\ probe = NoProbe

\* for_each polls the stream only when the future of its closure has resolved
stream_polled_eagerly == dpc \in {"poll", "clear", "write"}

stream_polled == dpc = "poll"

\* unfold closure: if state.complete() { return None }
UnfoldComplete ==
    /\ stream_polled
    /\ spc = "empty"
    /\ complete(state)
    /\ spc' = "ended"
    /\ dpc' = "stopped"
    /\ UNCHANGED <<opts, state, item, nticks, prior, screen, calls, sleeps,
                   outstanding, clears, rendered, io_failures, exit_code, errors, response, probe, clear_failures>>

\* unfold closure: if let State::Next(_, _) = state { sleep(1s) }
UnfoldSleep ==
    /\ stream_polled
    /\ spc = "empty"
    /\ ~complete(state)
    /\ state.tag = "Next"
    /\ calls < MaxTicks
    /\ sleeps' = sleeps + 1
    /\ spc' = "slept"
    /\ UNCHANGED <<opts, state, dpc, item, nticks, prior, screen, calls,
                   outstanding, clears, rendered, io_failures, exit_code, errors, response, probe, clear_failures>>

UnfoldRequestNoSleep ==
    /\ stream_polled
    /\ spc \in {"empty", "slept"}
    /\ ~complete(state)
    /\ calls < MaxTicks
    /\ calls' = calls + 1
    /\ outstanding' = outstanding + 1
    /\ spc' = "processing"
    /\ UNCHANGED <<opts, state, dpc, item, nticks, prior, screen, sleeps,
                   clears, rendered, io_failures, exit_code, errors, response, probe, clear_failures>>

\* unfold closure: cf.clone().describe_stack_resources(..) / describe_stack_events(..)
UnfoldRequest ==
    /\ stream_polled
    /\ \/ spc = "empty" /\ ~complete(state) /\ state.tag = "Init"
       \/ spc = "slept"
    /\ calls < MaxTicks
    /\ calls' = calls + 1
    /\ outstanding' = outstanding + 1
    /\ spc' = "processing"
    /\ UNCHANGED <<opts, state, dpc, item, nticks, prior, screen, sleeps,
                   clears, rendered, io_failures, exit_code, errors, response, probe, clear_failures>>

\* what a yielded item changes besides item and state
Yield ==
    /\ spc' = "empty"
    /\ dpc' = "clear"
    /\ outstanding' = outstanding - 1
    /\ nticks' = nticks + 1
    /\ prior' = IF nticks = 0 THEN 0 ELSE Len(item.states)
    /\ UNCHANGED <<opts, screen, calls, sleeps, clears, rendered, io_failures, exit_code, errors, probe, clear_failures>>

\* fetch_resources: the request resolves Ok(result) and the map closure runs
ResourcesOk ==
    /\ spc = "processing"
    /\ opts.resources
    /\ \E result \in ResourcesOutputs :
        LET states == resource_states(result) IN
            /\ response' = result
            /\ item' = emit(state, states)
            /\ state' = resources_next(state, states)
    /\ Yield

\* fetch_events: the request resolves Ok(result) and the map closure runs
EventsOk ==
    /\ spc = "processing"
    /\ ~opts.resources
    /\ \E result \in EventsOutputs :
        LET states == event_states(result) IN
            /\ response' = result
            /\ item' = emit(state, states)
            /\ state' = events_next(state, states)
    /\ Yield

FetchErrRetried ==
    /\ spc = "processing"
    /\ outstanding' = outstanding - 1
    /\ errors' = errors + 1
    /\ spc' = "slept"
    /\ UNCHANGED <<opts, state, dpc, item, nticks, prior, screen, calls, sleeps,
                   clears, rendered, io_failures, exit_code, response, probe, clear_failures>>

\* the request resolves Err(e): map_err(Error::from), the stream yields the
\* error and for_each resolves with it without calling its closure
FetchErr ==
    /\ spc = "processing"
    /\ outstanding' = outstanding - 1
    /\ errors' = errors + 1
    /\ spc' = "errored"
    /\ dpc' = "stopped"
    /\ UNCHANGED <<opts, state, item, nticks, prior, screen, calls, sleeps,
                   clears, rendered, io_failures, exit_code, response, probe, clear_failures>>

clear_last_lines_one_less(l, n) ==
    SubSeq(l, 1, IF n = 0 THEN Len(l) ELSE IF Len(l) >= n - 1 THEN Len(l) - (n - 1) ELSE 0)

\* console::Term::clear_last_lines(n) on a terminal showing the lines l
clear_last_lines(l, n) == SubSeq(l, 1, IF Len(l) >= n THEN Len(l) - n ELSE 0)

rows_reversed(tick, states) ==
    [i \in 1..Len(states) |-> [tick |-> tick, idx |-> Len(states) + 1 - i]]

\* the rows the loop writes: one per state of the batch, in order
rows(tick, states) == [i \in 1..Len(states) |-> [tick |-> tick, idx |-> i]]

\* for_each closure: drop(term.clear_last_lines(prev_len)); drop(writer.flush())
Clear ==
    /\ dpc = "clear"
    /\ \E ok \in BOOLEAN :
        /\ ~ok => io_failures < MaxIoFailures
        /\ screen' = IF ok THEN clear_last_lines(screen, item.prev_len) ELSE screen
        /\ io_failures' = IF ok THEN io_failures ELSE io_failures + 1
        /\ clear_failures' = IF ok THEN clear_failures ELSE clear_failures + 1
    /\ clears' = clears + 1
    /\ dpc' = "write"
    /\ UNCHANGED <<opts, state, spc, item, nticks, prior, calls, sleeps,
                   outstanding, rendered, exit_code, errors, response, probe>>

WriteAbortsOnFailure ==
    /\ dpc = "write"
    /\ \E ok \in BOOLEAN :
        /\ ~ok => io_failures < MaxIoFailures
        /\ screen' = IF ok THEN screen \o rows(nticks, item.states) ELSE screen
        /\ io_failures' = IF ok THEN io_failures ELSE io_failures + 1
        /\ rendered' = IF ok THEN rendered + 1 ELSE rendered
        /\ dpc' = IF ok THEN "poll" ELSE "stopped"
        /\ spc' = IF ok THEN spc ELSE "errored"
    /\ UNCHANGED <<opts, state, item, nticks, prior, calls, sleeps,
                   outstanding, clears, exit_code, errors, response, probe, clear_failures>>

\* for_each closure: for state in states { drop(writeln!(..)) }; drop(writer.flush()); Ok(())
Write ==
    /\ dpc = "write"
    /\ \E ok \in BOOLEAN :
        /\ ~ok => io_failures < MaxIoFailures
        /\ screen' = IF ok THEN screen \o rows(nticks, item.states) ELSE screen
        /\ io_failures' = IF ok THEN io_failures ELSE io_failures + 1
    /\ rendered' = rendered + 1
    /\ dpc' = "poll"
    /\ UNCHANGED <<opts, state, spc, item, nticks, prior, calls, sleeps,
                   outstanding, clears, exit_code, errors, response, probe, clear_failures>>

\* Rust's process exit status for the value main returns
exit_status(result) == IF result = "Ok" THEN 0 ELSE 1

\* main: tokio::run(.. .map_err(|_| ())); Ok(())
MainReturn ==
    /\ spc \in {"ended", "errored"}
    /\ exit_code = None
    /\ exit_code' = Some(exit_status("Ok"))
    /\ UNCHANGED <<opts, state, spc, dpc, item, nticks, prior, screen, calls,
                   sleeps, outstanding, clears, rendered, io_failures, errors, response, probe, clear_failures>>

Next ==
    \/ UnfoldComplete
    \/ UnfoldSleep
    \/ UnfoldRequest
    \/ ResourcesOk
    \/ EventsOk
    \/ FetchErr
    \/ Clear
    \/ Write
    \/ MainReturn

Spec == Init /\ [][Next]_vars

\* every step of the run is eventually taken: the sleep returns, the request
\* resolves, the closure of for_each runs to its end
FairSpec == Spec /\ WF_vars(Next)

\* ------------------------------------------------ complete_or_failed alone
\* statuses put to complete_or_failed: every prefix followed by every ending
StatusPrefixes ==
    {"", "X", "FOO", "CREATE", "UPDATE", "DELETE", "UPDATE_ROLLBACK", "IMPORT_ROLLBACK"}
StatusEndings ==
    {"", "_COMPLETE", "_FAILED", "_IN_PROGRESS", "_COMPLETE_CLEANUP_IN_PROGRESS",
     "COMPLETE", "FAILED", "_COMPLETED", "_FAILED_", "_complete", "_COMPLETE_FAILED_X",
     "_FAILED_COMPLETE"}
TestStatuses == {p \o e : p \in StatusPrefixes, e \in StatusEndings}

\* tests::state_is_complete_and_failure_aware: a ResourceState with the given
\* status is asked complete_or_failed()
AskStatus ==
    /\ \E s \in TestStatuses :
        probe' = [status |-> s,
                  terminal |-> complete_or_failed([resource_type |-> "foobar", status |-> s]),
                  asked |-> TRUE]
    /\ UNCHANGED <<opts, state, spc, dpc, item, nticks, prior, screen, calls, sleeps,
                   outstanding, clears, rendered, io_failures, errors, exit_code,
                   response, clear_failures>>

NextStatus == AskStatus

StatusSpec == Init /\ [][NextStatus]_vars

\* ======================================================================
\* Properties
\* ======================================================================

\* the status classes and the stack sentinel, as the specification words them
IsTerminal(r) == ends_with(r.status, "_COMPLETE") \/ ends_with(r.status, "_FAILED")
IsStackRecord(r) == r.resource_type = "AWS::CloudFormation::Stack"

\* EventSource: the chronologically last record is a terminal stack record
EventBatchDone(b) == b # <<>> /\ IsStackRecord(b[Len(b)]) /\ IsTerminal(b[Len(b)])
\* ResourceSource: every record is terminal
ResourceBatchDone(b) == \A i \in 1..Len(b) : IsTerminal(b[i])
BatchDone(b) == IF opts.resources THEN ResourceBatchDone(b) ELSE EventBatchDone(b)

Mixed(b) == (\E i \in 1..Len(b) : IsTerminal(b[i])) /\ (\E i \in 1..Len(b) : ~IsTerminal(b[i]))

\* C1: constructed with follow=false, the engine issues at most one fetch and
\* takes no sleep; a fetched batch is emitted as the one and only tick and
\* leaves the engine in Next(false, length), from which the stream ends; the
\* stream never ends with any other number of ticks.  Both Sources, whatever
\* the terminality of the batch.
C1_SingleShot ==
    ~opts.follow =>
        /\ calls <= 1
        /\ nticks <= 1
        /\ sleeps = 0
        /\ nticks = 1 =>
            /\ state = StateNext(FALSE, Len(item.states))
            /\ spc \in {"empty", "ended"}
        /\ spc = "ended" => (nticks = 1 /\ calls = 1)

C1_Witness ==
    /\ ~opts.follow
    /\ opts.resources
    /\ spc = "ended"
    /\ nticks = 1
    /\ Mixed(item.states)

\* C2: with follow=true and the EventSource the stream ends only after a batch
\* whose chronologically last record is a terminal stack record, goes on
\* following after every other batch, and issues no sleep and no fetch once
\* such a batch has been emitted: the ticks emitted are exactly those up to
\* the first such batch.
C2_EventsFollow ==
    (opts.follow /\ ~opts.resources) =>
        /\ spc = "ended" => (nticks >= 1 /\ EventBatchDone(item.states))
        /\ (nticks >= 1 /\ ~EventBatchDone(item.states)) =>
            state = StateNext(TRUE, Len(item.states))
        /\ (nticks >= 1 /\ EventBatchDone(item.states)) =>
            /\ state = StateNext(FALSE, Len(item.states))
            /\ spc \in {"empty", "ended"}
            /\ calls = nticks
            /\ sleeps + 1 = nticks

C2_Witness ==
    /\ opts.follow
    /\ ~opts.resources
    /\ spc = "ended"
    /\ nticks = 3
    /\ Len(item.states) = 2
    /\ item.states[2] = [resource_type |-> STACK_RESOURCE, status |-> "UPDATE_COMPLETE"]
    /\ ~IsTerminal(item.states[1])

\* C3: with follow=true and the ResourceSource a batch with a non-terminal
\* record leaves the engine following, and the first batch whose records are
\* all terminal is the last tick: the stream ends only after such a batch and
\* no sleep or fetch follows it.
C3_ResourcesFollow ==
    (opts.follow /\ opts.resources) =>
        /\ spc = "ended" => (nticks >= 1 /\ ResourceBatchDone(item.states))
        /\ (nticks >= 1 /\ ~ResourceBatchDone(item.states)) =>
            state = StateNext(TRUE, Len(item.states))
        /\ (nticks >= 1 /\ ResourceBatchDone(item.states)) =>
            /\ state = StateNext(FALSE, Len(item.states))
            /\ spc \in {"empty", "ended"}
            /\ calls = nticks
            /\ sleeps + 1 = nticks

C3_Witness ==
    /\ opts.follow
    /\ opts.resources
    /\ nticks = 1
    /\ Mixed(item.states)
    /\ rendered = 1
    /\ spc = "processing"
    /\ calls = 2

C5_Transition ==
    [][nticks' = nticks + 1 =>
        state' = StateNext(state.follow /\ ~BatchDone(item'.states), Len(item'.states))]_vars

C5_Witness ==
    /\ nticks = 2
    /\ state = StateNext(TRUE, 1)
    /\ item.prev_len = 2

\* C6: the previousCount emitted with the first tick is 0 and the one emitted
\* with a later tick is the number of records of the batch emitted on the
\* tick before it.
C6_PreviousCount ==
    /\ nticks = 1 => item.prev_len = 0
    /\ nticks >= 2 => item.prev_len = prior

C6_Witness ==
    /\ nticks = 2
    /\ prior = 2
    /\ item.prev_len = 2
    /\ Len(item.states) = 1

\* C7: with follow=true, once a batch satisfying the completion predicate has
\* been emitted the stream eventually ends; the stream never ends after a
\* batch that fails the predicate, and after such a batch the engine goes on
\* to the next request (as long as the bound on requests allows one).
C7_Termination ==
    /\ (opts.follow /\ nticks >= 1 /\ BatchDone(item.states)) ~> (spc = "ended")
    /\ [](opts.follow /\ spc = "ended" => BatchDone(item.states))
    /\ (opts.follow /\ nticks >= 1 /\ ~BatchDone(item.states) /\ calls = nticks /\ calls < MaxTicks)
            ~> (calls > nticks)

C7_Witness ==
    /\ opts.follow
    /\ spc = "ended"
    /\ nticks = 2
    /\ errors = 0
    /\ exit_code # None

\* C8: the step on which a request resolves Err, and every step after it,
\* emits no tick, leaves the terminal and the count of erasures as they are,
\* issues no request and takes no sleep; after it the driver has stopped, no
\* request is outstanding and no second error occurs.
C8_FetchErrorFatal ==
    /\ [][errors' > 0 =>
            /\ nticks' = nticks
            /\ item' = item
            /\ state' = state
            /\ screen' = screen
            /\ clears' = clears
            /\ rendered' = rendered
            /\ calls' = calls
            /\ sleeps' = sleeps]_vars
    /\ [](errors > 0 =>
            /\ errors = 1
            /\ spc = "errored"
            /\ dpc = "stopped"
            /\ outstanding = 0
            /\ calls = nticks + 1)

C8_Witness ==
    /\ errors = 1
    /\ nticks = 2
    /\ calls = 3
    /\ screen # <<>>

\* C9: when main has returned, the exit status is 0 exactly when the stream
\* ended without a fetch error, and non-zero when a fetch error ended it.
C9_ExitStatus ==
    exit_code # None => (exit_code = Some(0) <=> errors = 0)

\* C10: at most one request is outstanding; a sleep or a request of the next
\* tick is only under way when every emitted tick has been erased-and-written
\* to its end, and while a tick is being rendered no request is outstanding.
C10_Sequential ==
    /\ outstanding <= 1
    /\ spc \in {"slept", "processing"} =>
        /\ dpc = "poll"
        /\ rendered = nticks
        /\ clears = nticks
    /\ dpc \in {"clear", "write"} =>
        /\ outstanding = 0
        /\ spc = "empty"
        /\ rendered + 1 = nticks

C10_Witness ==
    /\ spc = "processing"
    /\ nticks = 2
    /\ rendered = 2
    /\ screen # <<>>

\* C11: the one-second sleep is taken exactly once before every request but
\* the first: a request is issued either from Init with no sleep taken so
\* far, or from Next right after a completed sleep; the sleeps taken are one
\* fewer than the requests issued (as many while a sleep has just returned),
\* and none is taken after the last tick.
C11_SleepBeforeLaterFetches ==
    /\ [][calls' = calls + 1 =>
            \/ state.tag = "Init" /\ spc = "empty" /\ sleeps = 0 /\ calls = 0
            \/ state.tag = "Next" /\ spc = "slept" /\ sleeps = calls /\ calls >= 1]_vars
    /\ [][sleeps' = sleeps + 1 =>
            state = StateNext(TRUE, Len(item.states)) /\ sleeps + 1 = calls]_vars
    /\ [](spc = "slept" => sleeps = calls)
    /\ [](spc # "slept" => (IF calls = 0 THEN sleeps = 0 ELSE sleeps + 1 = calls))

C11_Witness ==
    /\ spc = "ended"
    /\ calls = 3
    /\ sleeps = 2
    /\ nticks = 3

\* the lines of the current tick: one per record of the batch, in the order
\* of the batch
CurrentRows == [i \in 1..Len(item.states) |-> [tick |-> nticks, idx |-> i]]

CanGoOn ==
    /\ dpc = "poll"
    /\ spc = "empty"
    /\ ~(state.tag = "Next" /\ ~state.follow)
    /\ calls < MaxTicks

\* C13: a step on which a terminal operation fails is, for everything but the
\* terminal, the step it would have been had the operation succeeded: a
\* failed erasure is followed by the write, a failed write ends the closure
\* with the tick counted as rendered, and the engine state, the stream and
\* the counts of ticks, requests, sleeps and fetch errors are untouched; and
\* whenever the stream is polled in a state that is not complete the next
\* sleep or request is enabled, whatever failed on the terminal before.
C13_TerminalFailuresIgnored ==
    /\ [][io_failures' # io_failures =>
            /\ io_failures' = io_failures + 1
            /\ \/ dpc = "clear" /\ dpc' = "write" /\ rendered' = rendered
               \/ dpc = "write" /\ dpc' = "poll" /\ rendered' = rendered + 1
            /\ UNCHANGED <<state, spc, item, nticks, calls, sleeps, outstanding, errors, exit_code>>]_vars
    /\ [](CanGoOn => ENABLED (UnfoldSleep \/ UnfoldRequest))
    /\ []((dpc = "stopped" /\ errors = 0) => spc = "ended")

C13_Witness ==
    /\ io_failures = 1
    /\ clear_failures = 0
    /\ nticks = 1
    /\ screen = <<>>
    /\ Len(item.states) = 2
    /\ spc = "processing"
    /\ calls = 2

\* s ends with e: s is some prefix of s followed by e
EndsIn(s, e) == \E k \in 0..Len(s) : SubSeq(s, 1, k) \o e = s

\* C14: complete_or_failed answers true exactly for the statuses that end
\* with _COMPLETE or with _FAILED, and false for every other one, the empty
\* status and UPDATE_COMPLETE_CLEANUP_IN_PROGRESS included.
C14_TerminalStatus ==
    probe.asked =>
        /\ probe.terminal <=> (EndsIn(probe.status, "_COMPLETE") \/ EndsIn(probe.status, "_FAILED"))
        /\ probe.status \in {"FOO_COMPLETE", "FOO_FAILED"} => probe.terminal
        /\ probe.status \in {"FOO_IN_PROGRESS", "UPDATE_COMPLETE_CLEANUP_IN_PROGRESS", ""} =>
            ~probe.terminal

C14_Witness ==
    /\ probe.asked
    /\ probe.status = "UPDATE_COMPLETE_CLEANUP_IN_PROGRESS"
    /\ ~probe.terminal

\* C15: every request issued is answered once, by a batch or by an error, and
\* none is issued again for the same tick: the requests issued are the ticks
\* emitted, the errors and the request still outstanding; a stream that ended
\* without error has issued as many requests as it emitted ticks, and one
\* ended by a fetch error one more.
C15_OneCallPerFetch ==
    /\ calls = nticks + errors + outstanding
    /\ outstanding = (IF spc = "processing" THEN 1 ELSE 0)
    /\ errors <= 1
    /\ spc = "ended" => (errors = 0 /\ calls = nticks)
    /\ spc = "errored" => (errors = 1 /\ calls = nticks + 1)
    /\ errors > 0 => spc = "errored"

C15_Witness ==
    /\ spc = "errored"
    /\ nticks = 2
    /\ calls = 3
    /\ exit_code # None

\* the provider's list of the last Ok result, empty when the field is absent
ProviderList == IF response = None THEN <<>> ELSE response[1]

\* C16: the batch the EventSource emits has the length of the provider's
\* list and holds, at position i, the record of the provider's event at
\* position length + 1 - i, so that the record deciding completion (the last
\* of the batch) is the provider's first; the batch the ResourceSource emits
\* holds the provider's records at their own positions.
C16_EventsReversed ==
    nticks >= 1 =>
        /\ Len(item.states) = Len(ProviderList)
        /\ ~opts.resources =>
            /\ \A i \in 1..Len(ProviderList) :
                item.states[i] = from_event(ProviderList[Len(ProviderList) + 1 - i])
            /\ opts.follow =>
                (~state.follow <=>
                    /\ ProviderList # <<>>
                    /\ IsStackRecord(from_event(ProviderList[1]))
                    /\ IsTerminal(from_event(ProviderList[1])))
        /\ opts.resources =>
            \A i \in 1..Len(ProviderList) :
                item.states[i] = from_resource(ProviderList[i])

C16_Witness ==
    /\ ~opts.resources
    /\ opts.follow
    /\ nticks = 1
    /\ ProviderList = <<[resource_type |-> Some(STACK_RESOURCE), resource_status |-> Some("UPDATE_COMPLETE")],
                        [resource_type |-> Some(OtherType), resource_status |-> Some("UPDATE_COMPLETE")]>>
    /\ item.states[2] = [resource_type |-> STACK_RESOURCE, status |-> "UPDATE_COMPLETE"]
    /\ spc = "ended"

\* the provider returned no records: an empty list, or no list at all
NoRecords == response = None \/ response = Some(<<>>)

\* C17: with follow=true and the EventSource, a result with no events is
\* emitted as a tick with an empty batch and leaves the engine in
\* Next(true, 0): the stream has not ended, and once the tick is rendered the
\* next sleep is enabled.
C17_EmptyEventsNotDone ==
    (opts.follow /\ ~opts.resources /\ nticks >= 1 /\ NoRecords) =>
        /\ item.states = <<>>
        /\ state = StateNext(TRUE, 0)
        /\ spc # "ended"
        /\ (dpc = "poll" /\ spc = "empty" /\ calls < MaxTicks) => ENABLED UnfoldSleep

C17_Witness ==
    /\ opts.follow
    /\ ~opts.resources
    /\ nticks = 1
    /\ response = None
    /\ rendered = 1
    /\ spc = "processing"
    /\ calls = 2

\* C18: with follow=true and the ResourceSource, a result with no resources
\* is emitted as a tick with an empty batch and leaves the engine in
\* Next(false, 0): no sleep and no request follows, and the stream ends.
C18_EmptyResourcesDone ==
    (opts.follow /\ opts.resources /\ nticks >= 1 /\ NoRecords) =>
        /\ item.states = <<>>
        /\ state = StateNext(FALSE, 0)
        /\ spc \in {"empty", "ended"}
        /\ calls = nticks
        /\ sleeps + 1 = nticks
        /\ ~ENABLED (UnfoldSleep \/ UnfoldRequest)
        /\ (dpc = "poll" /\ spc = "empty") => ENABLED UnfoldComplete

C18_Witness ==
    /\ opts.follow
    /\ opts.resources
    /\ nticks = 2
    /\ response = None
    /\ prior = 2
    /\ state = StateNext(FALSE, 0)
    /\ spc = "ended"

\* C19: no step takes the follow flag of the engine state from false to
\* true; a state with follow=true occurs only in a run constructed with
\* follow=true, and only while the last batch emitted (if any) fails the
\* completion predicate, after which no further batch is emitted.
C19_FollowMonotone ==
    /\ [][~state.follow => ~state'.follow]_vars
    /\ [](state.follow => opts.follow)
    /\ []((state.follow /\ nticks >= 1) => ~BatchDone(item.states))
    /\ [][(nticks >= 1 /\ BatchDone(item.states)) => nticks' = nticks]_vars

C19_Witness ==
    /\ opts.follow
    /\ nticks = 3
    /\ ~state.follow
    /\ state.tag = "Next"
    /\ prior = 2
    /\ spc = "ended"

====
